---- MODULE Spec2Model ----
(***************************************************************************)
(* Model of thinker_goat.py: the goal tracker (GoalSystem), the tool       *)
(* table (ToolSystem), the record store (VectorMemory), the mood state     *)
(* (FeelingEngine), the command dispatcher (ThinkerGOAT.process_command)   *)
(* and the interactive loop (main).                                        *)
(*                                                                         *)
(* Text is a sequence of one-character strings.  Floating point values of  *)
(* goal progress are kept in tenths (10 is 1.0), energy in tenths and      *)
(* curiosity in hundredths, so that every value the code computes on the   *)
(* modelled inputs is exact; no value reached lies on a threshold of       *)
(* get_mood or of the completion test where binary rounding could decide.  *)
(* Progress values are finite decimals (NaN is not among the inputs).      *)
(* obj is the identity of a goal dict: two dicts with equal fields are     *)
(* still two goals.                                                        *)
(***************************************************************************)
EXTENDS Integers, Sequences, FiniteSets, TLC

VARIABLES
    active_goals,       \* GoalSystem.active_goals
    completed_goals,    \* GoalSystem.completed_goals
    config_max_goals,   \* Config.max_goals, as loaded by load_from_file
    created_count,      \* number of goal dicts built so far (object identity)
    memories,           \* VectorMemory.memories
    importance_scores,  \* VectorMemory.importance_scores
    energy,             \* FeelingEngine.energy, in tenths
    curiosity,          \* FeelingEngine.curiosity, in hundredths
    files,              \* the files the file tools see: set of [name, content]
    cmd_count,          \* number of calls of process_command so far
    result,             \* what the last call returned (or raised)
    tool_calls,         \* the tool handlers the last call invoked, in order
    session,            \* main: "running" inside the while loop, else "ended"
    printed             \* main: what the loop printed last

vars == <<active_goals, completed_goals, config_max_goals, created_count,
          memories, importance_scores, energy, curiosity, files,
          cmd_count, result, tool_calls, session, printed>>

goal_vars == <<active_goals, completed_goals, created_count>>
memory_vars == <<memories, importance_scores>>
mood_vars == <<energy, curiosity>>
loop_vars == <<session, printed>>

----------------------------------------------------------------------------
(* Bounds of the model *)

\* length the completed list may reach
MaxCompleted == 1

\* calls of process_command in one session
MaxCommands == 2

\* length of an expression handed to calculate directly
MaxExprLen == 3

\* records the store may hold when search_similar is called directly
MaxMemories == 2

\* values Config.max_goals may hold after load_from_file (5 is the default)
ConfigMaxGoalsValues == {3, 5}

\* values datetime.now() returns
Times == {0}

\* goal descriptions passed to add_goal
Descriptions == { <<"a">> }

\* goal priorities passed to add_goal (1 is the default)
Priorities == {1}

\* progress values passed to update_progress, in tenths
ProgressValues == {-5, 5, 10, 12}

\* goal ids passed to update_progress and complete_goal
GoalIdValues == 1..6

----------------------------------------------------------------------------
(* Values returned by the calls: a string result carries its message, the  *)
(* text and the number formatted into it; None and a raised exception are  *)
(* results of their own.                                                   *)

Str(msg, text, num) == [tag |-> "str", msg |-> msg, text |-> text, num |-> num]
None == [tag |-> "None", msg |-> "", text |-> <<>>, num |-> 0]
Raise(exc) == [tag |-> "raise", msg |-> exc, text |-> <<>>, num |-> 0]

----------------------------------------------------------------------------
(* GoalSystem *)

\* GoalSystem.__init__: self.max_goals = 5
max_goals == 5

RemoveAt(s, i) == SubSeq(s, 1, i - 1) \o SubSeq(s, i + 1, Len(s))

\* index of the first goal of the list with this id, 0 when there is none:
\* the goal both loops (update_progress, complete_goal) stop at
FirstIndex(goals, goal_id) ==
    IF \E i \in 1..Len(goals) : goals[i].id = goal_id
    THEN CHOOSE i \in 1..Len(goals) :
            /\ goals[i].id = goal_id
            /\ \A j \in 1..(i - 1) : goals[j].id # goal_id
    ELSE 0

ClampProgress_noclamp(progress) == progress

\* max(0.0, min(1.0, progress)), in tenths
ClampProgress(progress) ==
    LET m == IF progress < 10 THEN progress ELSE 10
    IN  IF m > 0 THEN m ELSE 0

\* completed_goal['completed'] = datetime.now().isoformat()
WithCompleted(goal, now) ==
    [id |-> goal.id, description |-> goal.description,
     priority |-> goal.priority, created |-> goal.created,
     progress |-> goal.progress, obj |-> goal.obj, completed |-> now]

\* The three methods as functions of the tracker state
\* gs = [active, completed, created]; each returns the new tracker state
\* and the returned value.  obj is the identity of the dict add_goal builds.

add_goal_off_by_one(gs, description, priority, now) ==
    IF Len(gs.active) > max_goals
    THEN [gs |-> gs, ret |-> Str("Cannot add more goals - limit reached", <<>>, 0)]
    ELSE LET goal == [id |-> Len(gs.active) + 1,
                      description |-> description,
                      priority |-> priority,
                      created |-> now,
                      progress |-> 0,
                      obj |-> gs.created + 1]
         IN  [gs |-> [active |-> Append(gs.active, goal),
                      completed |-> gs.completed,
                      created |-> gs.created + 1],
              ret |-> Str("Goal added", description, 0)]

add_goal(gs, description, priority, now) ==
    IF Len(gs.active) >= max_goals
    THEN [gs |-> gs, ret |-> Str("Cannot add more goals - limit reached", <<>>, 0)]
    ELSE LET goal == [id |-> Len(gs.active) + 1,
                      description |-> description,
                      priority |-> priority,
                      created |-> now,
                      progress |-> 0,
                      obj |-> gs.created + 1]
         IN  [gs |-> [active |-> Append(gs.active, goal),
                      completed |-> gs.completed,
                      created |-> gs.created + 1],
              ret |-> Str("Goal added", description, 0)]

complete_goal_copy(gs, goal_id, now) ==
    LET i == FirstIndex(gs.active, goal_id)
    IN  IF i = 0
        THEN [gs |-> gs, ret |-> Str("Goal not found", <<>>, 0)]
        ELSE [gs |-> [active |-> gs.active,
                      completed |-> Append(gs.completed,
                                           WithCompleted(gs.active[i], now)),
                      created |-> gs.created],
              ret |-> Str("Goal completed", gs.active[i].description, 0)]

complete_goal(gs, goal_id, now) ==
    LET i == FirstIndex(gs.active, goal_id)
    IN  IF i = 0
        THEN [gs |-> gs, ret |-> Str("Goal not found", <<>>, 0)]
        ELSE [gs |-> [active |-> RemoveAt(gs.active, i),
                      completed |-> Append(gs.completed,
                                           WithCompleted(gs.active[i], now)),
                      created |-> gs.created],
              ret |-> Str("Goal completed", gs.active[i].description, 0)]

update_progress(gs, goal_id, progress, now) ==
    LET i == FirstIndex(gs.active, goal_id)
    IN  IF i = 0
        THEN [gs |-> gs, ret |-> Str("Goal not found", <<>>, 0)]
        ELSE LET p == ClampProgress(progress)
                 gs1 == [gs EXCEPT !.active[i].progress = p]
             IN  [gs |-> IF p >= 10 THEN complete_goal(gs1, goal_id, now).gs
                                    ELSE gs1,
                  ret |-> Str("Progress updated for goal", <<>>, goal_id)]

Tracker == [active |-> active_goals, completed |-> completed_goals,
            created |-> created_count]

SetTracker(gs) ==
    /\ Len(gs.completed) <= MaxCompleted
    /\ active_goals' = gs.active
    /\ completed_goals' = gs.completed
    /\ created_count' = gs.created

----------------------------------------------------------------------------
(* Text: the str methods the dispatcher and the tools use *)

UpperCase == <<"A", "B", "C", "D", "E", "F", "G", "H", "I", "J", "K", "L", "M", "N", "O", "P", "Q", "R", "S", "T", "U", "V", "W", "X", "Y", "Z">>
LowerCase == <<"a", "b", "c", "d", "e", "f", "g", "h", "i", "j", "k", "l", "m", "n", "o", "p", "q", "r", "s", "t", "u", "v", "w", "x", "y", "z">>
Digits == <<"0", "1", "2", "3", "4", "5", "6", "7", "8", "9">>

\* position of character c in the tuple t, 0 when it is not there
IndexOf(t, c) ==
    IF \E k \in 1..Len(t) : t[k] = c
    THEN CHOOSE k \in 1..Len(t) : t[k] = c
    ELSE 0

IsDigit(c) == IndexOf(Digits, c) # 0
DigitValue(c) == IndexOf(Digits, c) - 1
IsSpace(c) == c \in {" ", "\t", "\n"}

\* str.lower()
lower(s) ==
    [i \in 1..Len(s) |->
        IF IndexOf(UpperCase, s[i]) # 0 THEN LowerCase[IndexOf(UpperCase, s[i])]
                                        ELSE s[i]]

\* str.strip()
strip(s) ==
    LET keep == {i \in 1..Len(s) : ~IsSpace(s[i])}
    IN  IF keep = {} THEN <<>>
        ELSE SubSeq(s, CHOOSE i \in keep : \A j \in keep : i <= j,
                       CHOOSE i \in keep : \A j \in keep : i >= j)

\* str.startswith(prefix)
startswith(s, prefix) ==
    Len(s) >= Len(prefix) /\ SubSeq(s, 1, Len(prefix)) = prefix

\* the slice s[n:]
From(s, n) == SubSeq(s, n + 1, Len(s))

\* sub in s
contains(s, sub) ==
    \E i \in 0..(Len(s) - Len(sub)) : SubSeq(s, i + 1, i + Len(sub)) = sub

\* s.split(' ', 1)
split_once(s) ==
    LET k == IndexOf(s, " ")
    IN  IF k = 0 THEN <<s>>
        ELSE <<SubSeq(s, 1, k - 1), SubSeq(s, k + 1, Len(s))>>

RECURSIVE split_from(_, _, _)
\* s.split(): the maximal runs of non-whitespace, cur being the run read so far
split_from(s, i, cur) ==
    IF i > Len(s)
    THEN IF cur = <<>> THEN <<>> ELSE <<cur>>
    ELSE IF IsSpace(s[i])
         THEN (IF cur = <<>> THEN <<>> ELSE <<cur>>) \o split_from(s, i + 1, <<>>)
         ELSE split_from(s, i + 1, Append(cur, s[i]))

split(s) == split_from(s, 1, <<>>)

RECURSIVE DigitsValue(_)
\* value of a run of decimal digits
DigitsValue(s) ==
    IF s = <<>> THEN 0
    ELSE 10 * DigitsValue(SubSeq(s, 1, Len(s) - 1)) + DigitValue(s[Len(s)])

AllDigits(s) == \A i \in 1..Len(s) : IsDigit(s[i])

HasSign(s) == Len(s) > 0 /\ s[1] \in {"+", "-"}
Unsigned(s) == IF HasSign(s) THEN From(s, 1) ELSE s
Sign(s) == IF Len(s) > 0 /\ s[1] = "-" THEN -1 ELSE 1

\* int(s): [ok, v]; ok is FALSE where int raises ValueError.  Texts are an
\* optional sign and decimal digits (no whitespace, no underscores).
int(s) ==
    LET body == Unsigned(s)
    IN  IF body # <<>> /\ AllDigits(body)
        THEN [ok |-> TRUE, v |-> Sign(s) * DigitsValue(body)]
        ELSE [ok |-> FALSE, v |-> 0]

\* float(s): [ok, v] with v in tenths; ok is FALSE where float raises
\* ValueError.  Texts are an optional sign, decimal digits and at most one
\* point followed by at most one digit (no exponent, no inf, no nan).
float(s) ==
    LET body == Unsigned(s)
        k == IndexOf(body, ".")
        whole == IF k = 0 THEN body ELSE SubSeq(body, 1, k - 1)
        frac == IF k = 0 THEN <<>> ELSE SubSeq(body, k + 1, Len(body))
    IN  IF /\ AllDigits(whole) /\ AllDigits(frac)
           /\ Len(whole) + Len(frac) > 0
           /\ Len(frac) <= 1
        THEN [ok |-> TRUE,
              v |-> Sign(s) * (10 * DigitsValue(whole) + DigitsValue(frac))]
        ELSE [ok |-> FALSE, v |-> 0]

----------------------------------------------------------------------------
(* eval and exec on the texts the tools hand them.  eval is modelled on    *)
(* the tokens NUMBER, +, * and **, separated by spaces: the inputs of the  *)
(* model contain no other character that the filter of calculate keeps.    *)

EvalFail == [ok |-> FALSE, v |-> 0, i |-> 0]

RECURSIVE tokenize(_, _)
\* the tokens of s from position i on: numbers (a literal with a leading
\* zero and a nonzero value is no token of Python 3), "+", "*", "**"
tokenize(s, i) ==
    IF i > Len(s) THEN <<>>
    ELSE IF IsSpace(s[i]) THEN tokenize(s, i + 1)
    ELSE IF IsDigit(s[i])
         THEN LET stop == CHOOSE j \in i..Len(s) :
                            /\ \A k \in i..j : IsDigit(s[k])
                            /\ (j = Len(s) \/ ~IsDigit(s[j + 1]))
                  run == SubSeq(s, i, stop)
                  legal == Len(run) = 1 \/ run[1] # "0" \/ DigitsValue(run) = 0
              IN  <<[k |-> IF legal THEN "num" ELSE "error", v |-> DigitsValue(run)]>>
                  \o tokenize(s, stop + 1)
    ELSE IF s[i] = "*" /\ i < Len(s) /\ s[i + 1] = "*"
         THEN <<[k |-> "**", v |-> 0]>> \o tokenize(s, i + 2)
    ELSE IF s[i] \in {"+", "*"}
         THEN <<[k |-> s[i], v |-> 0]>> \o tokenize(s, i + 1)
    ELSE <<[k |-> "error", v |-> 0]>> \o tokenize(s, i + 1)

RECURSIVE Pow(_, _)
Pow(b, e) == IF e = 0 THEN 1 ELSE b * Pow(b, e - 1)

RECURSIVE factor(_, _)
\* power: NUMBER ['**' factor]
power(ts, i) ==
    IF i > Len(ts) \/ ts[i].k # "num" THEN EvalFail
    ELSE IF i + 1 <= Len(ts) /\ ts[i + 1].k = "**"
         THEN LET e == factor(ts, i + 2)
              IN  IF e.ok THEN [ok |-> TRUE, v |-> Pow(ts[i].v, e.v), i |-> e.i]
                          ELSE EvalFail
         ELSE [ok |-> TRUE, v |-> ts[i].v, i |-> i + 1]

\* factor: '+' factor | power
factor(ts, i) ==
    IF i > Len(ts) THEN EvalFail
    ELSE IF ts[i].k = "+" THEN factor(ts, i + 1)
    ELSE power(ts, i)

RECURSIVE term_rest(_, _, _)
term_rest(ts, acc, i) ==
    IF i <= Len(ts) /\ ts[i].k = "*"
    THEN LET f == factor(ts, i + 1)
         IN  IF f.ok THEN term_rest(ts, acc * f.v, f.i) ELSE EvalFail
    ELSE [ok |-> TRUE, v |-> acc, i |-> i]

\* term: factor ('*' factor)*
term(ts, i) ==
    LET f == factor(ts, i)
    IN  IF f.ok THEN term_rest(ts, f.v, f.i) ELSE EvalFail

RECURSIVE arith_rest(_, _, _)
arith_rest(ts, acc, i) ==
    IF i <= Len(ts) /\ ts[i].k = "+"
    THEN LET t == term(ts, i + 1)
         IN  IF t.ok THEN arith_rest(ts, acc + t.v, t.i) ELSE EvalFail
    ELSE [ok |-> TRUE, v |-> acc, i |-> i]

\* arith: term ('+' term)*
arith(ts, i) ==
    LET t == term(ts, i)
    IN  IF t.ok THEN arith_rest(ts, t.v, t.i) ELSE EvalFail

\* eval(text): [ok, v]; ok is FALSE where eval raises (SyntaxError)
eval(text) ==
    LET ts == tokenize(text, 1)
        r == arith(ts, 1)
    IN  IF r.ok /\ r.i = Len(ts) + 1 THEN [ok |-> TRUE, v |-> r.v]
                                     ELSE [ok |-> FALSE, v |-> 0]

\* exec(code, safe_globals, safe_locals) completes: the code is blank, or an
\* expression statement that starts in column 0.  Every name is undefined
\* under empty builtins (NameError); but for ExitProgram, which exec_exits
\* covers, the texts contain no Python keyword.
exec_completes(code) ==
    \/ strip(code) = <<>>
    \/ ~IsSpace(code[1]) /\ eval(code).ok

----------------------------------------------------------------------------
(* ToolSystem *)

\* the keys of ToolSystem._setup_tools
available_tools ==
    {"web_search", "calculate", "write_file", "read_file", "execute_python"}

\* number of positional parameters of each handler
Arity(tool_name) == IF tool_name = "write_file" THEN 2 ELSE 1

web_search(query) == Str("[SIMULATED SEARCH] Results for", query, 0)

\* the character class [0-9+\-*/(). ] of calculate
SafeChars == {"0", "1", "2", "3", "4", "5", "6", "7", "8", "9",
              "+", "-", "*", "/", "(", ")", ".", " "}

IsSafeChar(c) == c \in SafeChars

\* re.sub(r'[^0-9+\-*/(). ]', '', expression)
safe_expression(expression) == SelectSeq(expression, IsSafeChar)

calculate(expression) ==
    LET r == eval(safe_expression(expression))
    IN  IF r.ok THEN Str("Calculation", expression, r.v)
                ELSE Str("Calculation error", <<>>, 0)

\* open(filename, 'w') fails on the empty name; [files, ret]
write_file(fs, filename, content) ==
    IF filename = <<>>
    THEN [files |-> fs, ret |-> Str("File write error", <<>>, 0)]
    ELSE [files |-> {f \in fs : f.name # filename}
                        \cup {[name |-> filename, content |-> content]},
          ret |-> Str("Successfully wrote to", filename, 0)]

\* open(filename, 'r') fails when there is no such file
read_file(fs, filename) ==
    IF \E f \in fs : f.name = filename
    THEN Str("File content from",
             filename \o <<":", "\n">> \o (CHOOSE f \in fs : f.name = filename).content,
             0)
    ELSE Str("File read error", <<>>, 0)

Dangerous == { <<"i", "m", "p", "o", "r", "t", " ", "o", "s">>,
               <<"i", "m", "p", "o", "r", "t", " ", "s", "y", "s">>,
               <<"_", "_", "i", "m", "p", "o", "r", "t", "_", "_">>,
               <<"e", "v", "a", "l", "(">>,
               <<"e", "x", "e", "c", "(">> }

\* a program that raises SystemExit under empty builtins; it finds the class
\* among the subclasses of object:
\*   raise [d for c in ().__class__.__base__.__subclasses__() if c.__name__
\*   .lower()=='baseexception' for d in c.__subclasses__() if d.__name__.lo
\*   wer()=='systemexit'][0]
ExitProgram == <<
    "r", "a", "i", "s", "e", " ", "[", "d", " ", "f", "o", "r", " ", "c",
    " ", "i", "n", " ", "(", ")", ".", "_", "_", "c", "l", "a", "s", "s",
    "_", "_", ".", "_", "_", "b", "a", "s", "e", "_", "_", ".", "_", "_",
    "s", "u", "b", "c", "l", "a", "s", "s", "e", "s", "_", "_", "(", ")",
    " ", "i", "f", " ", "c", ".", "_", "_", "n", "a", "m", "e", "_", "_",
    ".", "l", "o", "w", "e", "r", "(", ")", "=", "=", "'", "b", "a", "s",
    "e", "e", "x", "c", "e", "p", "t", "i", "o", "n", "'", " ", "f", "o",
    "r", " ", "d", " ", "i", "n", " ", "c", ".", "_", "_", "s", "u", "b",
    "c", "l", "a", "s", "s", "e", "s", "_", "_", "(", ")", " ", "i", "f",
    " ", "d", ".", "_", "_", "n", "a", "m", "e", "_", "_", ".", "l", "o",
    "w", "e", "r", "(", ")", "=", "=", "'", "s", "y", "s", "t", "e", "m",
    "e", "x", "i", "t", "'", "]", "[", "0", "]" >>

\* exec(code, safe_globals, safe_locals) raises SystemExit
exec_exits(code) == code = ExitProgram

\* SystemExit is not an Exception: neither the except clause of
\* execute_python nor that of use_tool catches it
execute_python(code) ==
    IF \E dangerous \in Dangerous : contains(code, dangerous)
    THEN Str("Error: Potentially unsafe code detected", <<>>, 0)
    ELSE IF exec_exits(code) THEN Raise("SystemExit")
    ELSE IF exec_completes(code) THEN Str("Code executed successfully", <<>>, 0)
                                 ELSE Str("Execution error", <<>>, 0)

use_tool_default_handler(fs, tool_name, args) ==
    IF Len(args) # 1
    THEN [files |-> fs, ret |-> Str("Tool error", <<>>, 0), calls |-> <<>>]
    ELSE [files |-> fs, ret |-> web_search(args[1]),
          calls |-> <<[tool |-> "web_search", args |-> args]>>]

\* use_tool(tool_name, *args): [files, ret, calls], calls being the handler
\* invocations made.  A call with the wrong number of arguments raises
\* TypeError before the handler runs and is turned into "Tool error".
use_tool(fs, tool_name, args) ==
    IF tool_name \notin available_tools
    THEN [files |-> fs, ret |-> Str("Tool not available", <<>>, 0), calls |-> <<>>]
    ELSE IF Len(args) # Arity(tool_name)
    THEN [files |-> fs, ret |-> Str("Tool error", <<>>, 0), calls |-> <<>>]
    ELSE LET called == <<[tool |-> tool_name, args |-> args]>>
         IN  CASE tool_name = "web_search" ->
                    [files |-> fs, ret |-> web_search(args[1]), calls |-> called]
               [] tool_name = "calculate" ->
                    [files |-> fs, ret |-> calculate(args[1]), calls |-> called]
               [] tool_name = "write_file" ->
                    LET w == write_file(fs, args[1], args[2])
                    IN  [files |-> w.files, ret |-> w.ret, calls |-> called]
               [] tool_name = "read_file" ->
                    [files |-> fs, ret |-> read_file(fs, args[1]), calls |-> called]
               [] tool_name = "execute_python" ->
                    [files |-> fs, ret |-> execute_python(args[1]), calls |-> called]

----------------------------------------------------------------------------
(* FeelingEngine *)

Clamp(x, lo, hi) == IF x < lo THEN lo ELSE IF x > hi THEN hi ELSE x

react_single_gain(mood, reward) ==
    [energy |-> Clamp(mood.energy + reward, 0, 1000),
     curiosity |-> Clamp(mood.curiosity + reward, 0, 100)]

\* react(reward), reward in tenths: energy (tenths) moves by 2.0 * reward,
\* curiosity (hundredths) by 0.1 * reward; mood = [energy, curiosity]
react(mood, reward) ==
    [energy |-> Clamp(mood.energy + 2 * reward, 0, 1000),
     curiosity |-> Clamp(mood.curiosity + reward, 0, 100)]

get_mood_tired_first(mood) ==
    IF mood.energy > 800 THEN "energetic"
    ELSE IF mood.energy < 300 THEN "tired"
    ELSE IF mood.curiosity > 70 THEN "curious"
    ELSE "calm"

get_mood(mood) ==
    IF mood.energy > 800 THEN "energetic"
    ELSE IF mood.curiosity > 70 THEN "curious"
    ELSE IF mood.energy < 300 THEN "tired"
    ELSE "calm"

Mood == [energy |-> energy, curiosity |-> curiosity]

SetMood(mood) ==
    /\ energy' = mood.energy
    /\ curiosity' = mood.curiosity

----------------------------------------------------------------------------
(* VectorMemory *)

add_memory_prepend(memory, importance) ==
    /\ memories' = <<memory>> \o memories
    /\ importance_scores' = <<importance>> \o importance_scores

\* add_memory(memory, importance), importance in hundredths
add_memory(memory, importance) ==
    /\ memories' = Append(memories, memory)
    /\ importance_scores' = Append(importance_scores, importance)

\* a list returned by a call: its items are carried in the text field
List(items) == [tag |-> "list", msg |-> "", text |-> items, num |-> 0]

\* str(memory) of a dict {'text': t}, t without quotes or backslashes
str_memory(memory) == <<"{", "'", "t", "e", "x", "t", "'", ":", " ", "'">> \o memory.text \o <<"'", "}">>

\* the scores search_similar gives the records, in hundredths: one per
\* word of query.split() found in str(memory).lower(), times (1 + importance)
Scores(mems, imps, query) ==
    LET words == split(lower(query))
        Count(i) ==
            LET memory_text == lower(str_memory(mems[i])) \o <<>>
            IN  Cardinality({k \in 1..Len(words) : contains(memory_text, words[k])})
    IN  [i \in 1..Len(mems) |-> Count(i) * (100 + imps[i])] \o <<>>

\* scored_memories.sort(reverse=True) compares the tuples (score, memory):
\* on equal scores it compares the dicts, and dicts that differ have no
\* order (TypeError).  Every sort compares the neighbours of its output.
SortRaises(mems, scores) ==
    \E i \in 1..Len(mems), j \in 1..Len(mems) :
        scores[i] = scores[j] /\ mems[i] # mems[j]

\* the indices of the store after the sort: by descending score, equal
\* tuples in their order of insertion
SortedIndices(scores) ==
    LET Before(j, i) == scores[j] > scores[i] \/ (scores[j] = scores[i] /\ j < i)
        Rank(i) == 1 + Cardinality({j \in 1..Len(scores) : Before(j, i)})
    IN  [p \in 1..Len(scores) |-> CHOOSE i \in 1..Len(scores) : Rank(i) = p]
            \o <<>>

\* the slice s[:n], n >= 0
Take(s, n) == SubSeq(s, 1, IF n < Len(s) THEN n ELSE Len(s))

search_similar_unfiltered(mems, imps, query, top_k) ==
    LET scores == Scores(mems, imps, query)
    IN  IF SortRaises(mems, scores) THEN Raise("TypeError")
        ELSE LET first == Take(SortedIndices(scores), top_k)
             IN  List([p \in 1..Len(first) |-> mems[first[p]]])

\* search_similar(query, top_k), top_k >= 0: the returned list, or the
\* exception of the sort
search_similar(mems, imps, query, top_k) ==
    LET scores == Scores(mems, imps, query)
    IN  IF SortRaises(mems, scores) THEN Raise("TypeError")
        ELSE LET first == Take(SortedIndices(scores), top_k)
                 Positive(i) == scores[i] > 0
                 kept == SelectSeq(first, Positive)
             IN  List([p \in 1..Len(kept) |-> mems[kept[p]]])

----------------------------------------------------------------------------
(* ThinkerGOAT.process_command *)

kw_search == <<"s", "e", "a", "r", "c", "h", " ">>
kw_calculate == <<"c", "a", "l", "c", "u", "l", "a", "t", "e", " ">>
kw_write_file == <<"w", "r", "i", "t", "e", "_", "f", "i", "l", "e", " ">>
kw_read_file == <<"r", "e", "a", "d", "_", "f", "i", "l", "e", " ">>
kw_run == <<"r", "u", "n", " ">>
kw_add_goal == <<"a", "d", "d", "_", "g", "o", "a", "l", " ">>
kw_progress == <<"p", "r", "o", "g", "r", "e", "s", "s", " ">>
kw_learn_code == <<"l", "e", "a", "r", "n", " ", "c", "o", "d", "e">>
kw_learn_logic == <<"l", "e", "a", "r", "n", " ", "l", "o", "g", "i", "c">>
kw_status == <<"s", "t", "a", "t", "u", "s">>
kw_goals == <<"g", "o", "a", "l", "s">>
kw_memory == <<"m", "e", "m", "o", "r", "y">>
kw_help == <<"h", "e", "l", "p">>
sub_hello == <<"h", "e", "l", "l", "o">>
sub_hi == <<"h", "i">>
sub_how_are_you == <<"h", "o", "w", " ", "a", "r", "e", " ", "y", "o", "u">>
sub_learn == <<"l", "e", "a", "r", "n">>

\* the decimal text of n, 0 <= n <= 99
FormatInt(n) ==
    IF n < 10 THEN <<Digits[n + 1]>>
    ELSE <<Digits[(n \div 10) + 1], Digits[(n % 10) + 1]>>

\* a branch that returns ret and touches nothing
Return(ret) ==
    /\ result' = ret
    /\ tool_calls' = <<>>
    /\ UNCHANGED <<goal_vars, memory_vars, mood_vars, files>>

\* return self.tools.use_tool(tool_name, *args)
ReturnTool(tool_name, args) ==
    LET r == use_tool(files, tool_name, args)
    IN  /\ result' = r.ret
        /\ files' = r.files
        /\ tool_calls' = r.calls
        /\ UNCHANGED <<goal_vars, memory_vars, mood_vars>>

\* return of a GoalSystem method, r = [gs, ret]
ReturnGoal(r) ==
    /\ SetTracker(r.gs)
    /\ result' = r.ret
    /\ tool_calls' = <<>>
    /\ UNCHANGED <<memory_vars, mood_vars, files>>

\* random.randint(1, 10)
ReasoningTimes == {1, 10}

learn_code_writing_twice ==
    \E problem \in 1..3, success \in BOOLEAN :
        /\ LET reward == IF success THEN 8 ELSE -5
           IN  SetMood(react(react(Mood, reward), reward))
        /\ result' = Str(IF success THEN "Successfully solved"
                                    ELSE "Need more practice with", <<>>, problem)
        /\ tool_calls' = <<>>
        /\ UNCHANGED <<goal_vars, memory_vars, files>>

learn_code_writing ==
    \E problem \in 1..3, success \in BOOLEAN :
        /\ SetMood(react(Mood, IF success THEN 8 ELSE -5))
        /\ result' = Str(IF success THEN "Successfully solved"
                                    ELSE "Need more practice with", <<>>, problem)
        /\ tool_calls' = <<>>
        /\ UNCHANGED <<goal_vars, memory_vars, files>>

learn_logic_puzzles ==
    \E puzzle \in 1..3, reasoning_time \in ReasoningTimes, success \in BOOLEAN,
       now \in Times :
        /\ add_memory([type |-> "logic_puzzle", puzzle |-> puzzle,
                       success |-> success, timestamp |-> now],
                      IF success THEN 70 ELSE 30)
        /\ SetMood(react(Mood, IF success THEN 6 ELSE -3))
        /\ result' = Str(IF success THEN "Solved puzzle" ELSE "Challenging puzzle",
                         FormatInt(reasoning_time), puzzle)
        /\ tool_calls' = <<>>
        /\ UNCHANGED <<goal_vars, files>>

Responses_hello_only(message) ==
    IF contains(message, sub_hello) THEN [set |-> "greeting", n |-> 3]
    ELSE IF contains(message, sub_how_are_you) THEN [set |-> "mood", n |-> 3]
    ELSE IF contains(message, sub_learn) THEN [set |-> "learning", n |-> 3]
    ELSE [set |-> "generic", n |-> 5]

\* the reply set have_conversation picks from, and its size
Responses(message) ==
    IF contains(message, sub_hello) \/ contains(message, sub_hi)
    THEN [set |-> "greeting", n |-> 3]
    ELSE IF contains(message, sub_how_are_you) THEN [set |-> "mood", n |-> 3]
    ELSE IF contains(message, sub_learn) THEN [set |-> "learning", n |-> 3]
    ELSE [set |-> "generic", n |-> 5]

have_conversation(message) ==
    LET responses == Responses(message)
    IN  \E choice \in 1..responses.n, now \in Times :
            /\ add_memory([type |-> "conversation",
                           user_message |-> message,
                           ai_response |-> [set |-> responses.set, choice |-> choice],
                           timestamp |-> now,
                           mood |-> get_mood(Mood)],
                          40)
            /\ result' = Str(responses.set, <<>>, choice)
            /\ tool_calls' = <<>>
            /\ UNCHANGED <<goal_vars, mood_vars, files>>

get_status == Str("Status", <<>>, Len(active_goals))

show_goals ==
    IF active_goals = <<>> THEN Str("No active goals", <<>>, 0)
                           ELSE Str("Active Goals", <<>>, Len(active_goals))

show_memory_stats == Str("Memory Statistics", <<>>, Len(memories))

show_help == Str("Available Commands", <<>>, 0)

\* command.lower().strip()
Normalize(command) == strip(lower(command))

process_command(raw) ==
    LET command == Normalize(raw)
    IN  /\ cmd_count < MaxCommands
        /\ cmd_count' = cmd_count + 1
        /\ UNCHANGED config_max_goals
        /\ IF startswith(command, kw_search)
           THEN ReturnTool("web_search", <<From(command, 7)>>)
           ELSE IF startswith(command, kw_calculate)
           THEN ReturnTool("calculate", <<From(command, 10)>>)
           ELSE IF startswith(command, kw_write_file)
           THEN LET parts == split_once(From(command, 10))
                IN  IF Len(parts) = 2
                    THEN ReturnTool("write_file", <<parts[1], parts[2]>>)
                    ELSE Return(None)
           ELSE IF startswith(command, kw_read_file)
           THEN ReturnTool("read_file", <<From(command, 9)>>)
           ELSE IF startswith(command, kw_run)
           THEN ReturnTool("execute_python", <<From(command, 4)>>)
           ELSE IF startswith(command, kw_add_goal)
           THEN \E now \in Times :
                    ReturnGoal(add_goal(Tracker, From(command, 9), 1, now))
           ELSE IF startswith(command, kw_progress)
           THEN LET parts == split(From(command, 9))
                IN  IF Len(parts) = 2
                    THEN IF int(parts[1]).ok /\ float(parts[2]).ok
                         THEN \E now \in Times :
                                ReturnGoal(update_progress(Tracker, int(parts[1]).v,
                                                           float(parts[2]).v, now))
                         ELSE Return(Raise("ValueError"))
                    ELSE Return(None)
           ELSE IF command = kw_learn_code THEN learn_code_writing
           ELSE IF command = kw_learn_logic THEN learn_logic_puzzles
           ELSE IF command = kw_status THEN Return(get_status)
           ELSE IF command = kw_goals THEN Return(show_goals)
           ELSE IF command = kw_memory THEN Return(show_memory_stats)
           ELSE IF command = kw_help THEN Return(show_help)
           ELSE have_conversation(command)

\* command lines typed in a session
Commands ==
    { <<"s", "e", "a", "r", "c", "h", " ", "a">>,
      <<"S", "e", "a", "r", "c", "h", " ", "A", " ">>,
      <<"s", "e", "a", "r", "c", "h">>,
      <<"c", "a", "l", "c", "u", "l", "a", "t", "e", " ", "2", "+", "2">>,
      <<"c", "a", "l", "c", "u", "l", "a", "t", "e", " ", "2", "+", "2", "a">>,
      <<"c", "a", "l", "c", "u", "l", "a", "t", "e", " ", "a">>,
      <<"w", "r", "i", "t", "e", "_", "f", "i", "l", "e", " ", "a", " ", "b">>,
      <<"w", "r", "i", "t", "e", "_", "f", "i", "l", "e", " ", "a">>,
      <<"w", "r", "i", "t", "e", "_", "f", "i", "l", "e">>,
      <<"r", "e", "a", "d", "_", "f", "i", "l", "e", " ", "a">>,
      <<"r", "e", "a", "d", "_", "f", "i", "l", "e">>,
      <<"r", "u", "n", " ", "1">>,
      <<"r", "u", "n", " ", "a">>,
      <<"r", "u", "n", " ", "i", "m", "p", "o", "r", "t", " ", "o", "s">>,
      <<"a", "d", "d", "_", "g", "o", "a", "l", " ", "a">>,
      <<"a", "d", "d", "_", "g", "o", "a", "l">>,
      <<"p", "r", "o", "g", "r", "e", "s", "s", " ", "1", " ", "0", ".", "5">>,
      <<"p", "r", "o", "g", "r", "e", "s", "s", " ", "1", " ", "1", ".", "2">>,
      <<"p", "r", "o", "g", "r", "e", "s", "s", " ", "2", " ", "1">>,
      <<"p", "r", "o", "g", "r", "e", "s", "s", " ", "1", " ", "-", "1">>,
      <<"p", "r", "o", "g", "r", "e", "s", "s", " ", "9", " ", "1">>,
      <<"p", "r", "o", "g", "r", "e", "s", "s", " ", "1">>,
      <<"p", "r", "o", "g", "r", "e", "s", "s", " ", "a", " ", "b">>,
      <<"p", "r", "o", "g", "r", "e", "s", "s", " ", "1", " ", "b">>,
      <<"p", "r", "o", "g", "r", "e", "s", "s", " ", "1", " ", "2", " ", "3">>,
      <<"p", "r", "o", "g", "r", "e", "s", "s">>,
      <<"l", "e", "a", "r", "n", " ", "c", "o", "d", "e">>,
      <<"l", "e", "a", "r", "n", " ", "l", "o", "g", "i", "c">>,
      <<"s", "t", "a", "t", "u", "s">>,
      <<"g", "o", "a", "l", "s">>,
      <<"m", "e", "m", "o", "r", "y">>,
      <<"h", "e", "l", "p">>,
      <<"h", "e", "l", "l", "o">>,
      <<"h", "o", "w", " ", "a", "r", "e", " ", "y", "o", "u">>,
      <<"l", "e", "a", "r", "n">>,
      <<"t", "h", "i", "s">>,
      <<"a">>,
      <<>> }

----------------------------------------------------------------------------
(* main: the interactive loop *)

\* the words that end the loop
ExitWords == { <<"e", "x", "i", "t">>,
               <<"q", "u", "i", "t">>,
               <<"b", "y", "e">> }

\* the exceptions "except Exception" catches: all but the classes
\* derived from BaseException alone
IsException(exc) == exc \notin {"SystemExit", "KeyboardInterrupt", "GeneratorExit"}

\* one turn of the loop, input() returning line
main_step(line) ==
    LET user_input == strip(line)
    IN  /\ session = "running"
        /\ IF lower(user_input) \in ExitWords
           THEN /\ session' = "ended"
                /\ printed' = "Goodbye"
                /\ UNCHANGED <<config_max_goals, goal_vars, memory_vars, mood_vars,
                               files, cmd_count, result, tool_calls>>
           ELSE /\ process_command(user_input)
                /\ IF result'.tag # "raise"
                   THEN session' = "running" /\ printed' = "response"
                   ELSE IF result'.msg = "KeyboardInterrupt"
                   THEN session' = "ended" /\ printed' = "Session interrupted"
                   ELSE IF IsException(result'.msg)
                   THEN session' = "running" /\ printed' = "Error"
                   ELSE session' = "ended" /\ printed' = printed

\* KeyboardInterrupt arrives while the loop waits in input()
main_interrupt ==
    /\ session = "running"
    /\ session' = "ended"
    /\ printed' = "Session interrupted"
    /\ UNCHANGED <<config_max_goals, goal_vars, memory_vars, mood_vars, files,
                   cmd_count, result, tool_calls>>

\* input() raises EOFError at the end of the input
main_eof ==
    /\ session = "running"
    /\ session' = "running"
    /\ printed' = "Error"
    /\ UNCHANGED <<config_max_goals, goal_vars, memory_vars, mood_vars, files,
                   cmd_count, result, tool_calls>>

\* lines input() returns
Lines ==
    { <<"e", "x", "i", "t">>,
      <<" ", "Q", "U", "I", "T", " ">>,
      <<"B", "y", "e">>,
      <<"e", "x", "i", "t", " ", "n", "o", "w">>,
      <<"b", "y", "e", "b", "y", "e">>,
      <<"h", "e", "l", "p">>,
      <<"h", "e", "l", "l", "o">>,
      <<"p", "r", "o", "g", "r", "e", "s", "s", " ", "a", " ", "b">>,
      <<"l", "e", "a", "r", "n", " ", "l", "o", "g", "i", "c">>,
      <<"a", "d", "d", "_", "g", "o", "a", "l", " ", "a">>,
      kw_run \o ExitProgram }

\* command lines of a session of learning and conversation, with one
\* command of every other kind
TalkCommands ==
    { <<"s", "e", "a", "r", "c", "h", " ", "a">>,
      <<"w", "r", "i", "t", "e", "_", "f", "i", "l", "e", " ", "a", " ", "b">>,
      <<"a", "d", "d", "_", "g", "o", "a", "l", " ", "a">>,
      <<"p", "r", "o", "g", "r", "e", "s", "s", " ", "1", " ", "0", ".", "5">>,
      <<"l", "e", "a", "r", "n", " ", "c", "o", "d", "e">>,
      <<"L", "e", "a", "r", "n", " ", "L", "o", "g", "i", "c", " ">>,
      <<"s", "t", "a", "t", "u", "s">>,
      <<"g", "o", "a", "l", "s">>,
      <<"m", "e", "m", "o", "r", "y">>,
      <<"h", "e", "l", "p">>,
      <<"h", "e", "l", "l", "o">>,
      <<"h", "o", "w", " ", "a", "r", "e", " ", "y", "o", "u">>,
      <<"l", "e", "a", "r", "n">>,
      <<"t", "h", "i", "s">>,
      <<"a">>,
      <<"l", "e", "a", "r", "n", " ", "h", "e", "l", "l", "o">>,
      <<"h", "o", "w", " ", "a", "r", "e", " ", "y", "o", "u", "?", " ", "l", "e", "a", "r", "n">> }

----------------------------------------------------------------------------
(* Calls made directly on the tracker *)

Call_add_goal(description, priority) ==
    /\ \E now \in Times :
         LET r == add_goal(Tracker, description, priority, now)
         IN  /\ SetTracker(r.gs)
             /\ result' = r.ret
    /\ tool_calls' = <<>>
    /\ UNCHANGED <<config_max_goals, memory_vars, mood_vars, files, cmd_count,
                   loop_vars>>

Call_update_progress(goal_id, progress) ==
    /\ \E now \in Times :
         LET r == update_progress(Tracker, goal_id, progress, now)
         IN  /\ SetTracker(r.gs)
             /\ result' = r.ret
    /\ tool_calls' = <<>>
    /\ UNCHANGED <<config_max_goals, memory_vars, mood_vars, files, cmd_count,
                   loop_vars>>

Call_complete_goal(goal_id) ==
    /\ \E now \in Times :
         LET r == complete_goal(Tracker, goal_id, now)
         IN  /\ SetTracker(r.gs)
             /\ result' = r.ret
    /\ tool_calls' = <<>>
    /\ UNCHANGED <<config_max_goals, memory_vars, mood_vars, files, cmd_count,
                   loop_vars>>

----------------------------------------------------------------------------
(* Calls made directly on the tool table *)

ExprAlphabet == {"2", "+", "*", " ", "a"}

\* expressions handed to calculate
Expressions == UNION {[1..n -> ExprAlphabet] : n \in 0..MaxExprLen}

Call_use_tool(tool_name, args) ==
    /\ LET r == use_tool(files, tool_name, args)
       IN  /\ files' = r.files
           /\ result' = r.ret
           /\ tool_calls' = r.calls
    /\ UNCHANGED <<config_max_goals, goal_vars, memory_vars, mood_vars, cmd_count,
                   loop_vars>>

\* tool names handed to use_tool that _setup_tools does not register
UnknownTools == {"", "search", "Calculate", "delete_file"}

\* file names and contents handed to write_file and read_file
FileNames == { <<"a">>, <<>> }
FileContents == { <<>>, <<"c">> }

\* argument tuples handed to use_tool with a name not registered
ToolArguments == { <<>>, << <<"a">> >>, << <<"a">>, <<"c">> >> }

----------------------------------------------------------------------------
(* Calls made directly on the mood state *)

\* rewards handed to react, in tenths
RewardValues == {-1000, -40, -20, 0, 20, 40, 1000}

Call_react(reward) ==
    /\ SetMood(react(Mood, reward))
    /\ result' = None
    /\ tool_calls' = <<>>
    /\ UNCHANGED <<config_max_goals, goal_vars, memory_vars, files, cmd_count,
                   loop_vars>>

Call_get_mood ==
    /\ result' = Str(get_mood(Mood), <<>>, 0)
    /\ tool_calls' = <<>>
    /\ UNCHANGED <<config_max_goals, goal_vars, memory_vars, mood_vars, files,
                   cmd_count, loop_vars>>

----------------------------------------------------------------------------
(* Calls made directly on the record store *)

\* dicts handed to add_memory: {'text': t}
MemoryDicts == { [text |-> <<"a">>], [text |-> <<"b">>], [text |-> <<"a", "b">>] }

\* importances handed to add_memory, in hundredths
ImportanceValues == {0, 100}

\* queries handed to search_similar
Queries == { <<>>, <<"a">>, <<"B">>, <<"a", " ", "B">>, <<"a", " ", " ", "a">>, <<"a", "B">> }

\* top_k handed to search_similar (5 is the default)
TopKValues == {0, 1, 2, 5}

Call_add_memory(memory, importance) ==
    /\ Len(memories) < MaxMemories
    /\ add_memory(memory, importance)
    /\ result' = None
    /\ tool_calls' = <<>>
    /\ UNCHANGED <<config_max_goals, goal_vars, mood_vars, files, cmd_count,
                   loop_vars>>

Call_search_similar(query, top_k) ==
    /\ result' = search_similar(memories, importance_scores, query, top_k)
    /\ tool_calls' = <<>>
    /\ UNCHANGED <<config_max_goals, goal_vars, memory_vars, mood_vars, files,
                   cmd_count, loop_vars>>

----------------------------------------------------------------------------
(* The state after ThinkerGOAT.__init__ *)

Init ==
    /\ active_goals = <<>>
    /\ completed_goals = <<>>
    /\ config_max_goals \in ConfigMaxGoalsValues
    /\ created_count = 0
    /\ memories = <<>>
    /\ importance_scores = <<>>
    /\ energy = 750
    /\ curiosity = 60
    /\ files = {}
    /\ cmd_count = 0
    /\ result = None
    /\ tool_calls = <<>>
    /\ session = "running"
    /\ printed = ""

Next ==
    \/ \E d \in Descriptions, pr \in Priorities : Call_add_goal(d, pr)
    \/ \E id \in GoalIdValues, p \in ProgressValues : Call_update_progress(id, p)
    \/ \E id \in GoalIdValues : Call_complete_goal(id)

Spec == Init /\ [][Next]_vars

NextTools ==
    \E e \in Expressions : Call_use_tool("calculate", <<e>>)

SpecTools == Init /\ [][NextTools]_vars

NextMem ==
    \/ \E m \in MemoryDicts, imp \in ImportanceValues : Call_add_memory(m, imp)
    \/ \E q \in Queries, k \in TopKValues : Call_search_similar(q, k)

SpecMem == Init /\ [][NextMem]_vars

\* use_tool called by name while the goal lists, the record store, the mood
\* state and the files are being filled
NextStores ==
    \/ \E d \in Descriptions, pr \in Priorities : Call_add_goal(d, pr)
    \/ \E m \in MemoryDicts : Call_add_memory(m, 40)
    \/ \E r \in {-1000, 1000} : Call_react(r)
    \/ \E f \in FileNames, c \in FileContents : Call_use_tool("write_file", <<f, c>>)
    \/ \E f \in FileNames : Call_use_tool("read_file", <<f>>)
    \/ \E t \in UnknownTools, a \in ToolArguments : Call_use_tool(t, a)

SpecStores == Init /\ [][NextStores]_vars

NextMood ==
    \/ \E r \in RewardValues : Call_react(r)
    \/ Call_get_mood

SpecMood == Init /\ [][NextMood]_vars

\* a call of process_command outside the loop of main
Call_process_command(command) ==
    /\ process_command(command)
    /\ UNCHANGED loop_vars

NextMain ==
    \/ \E line \in Lines : main_step(line)
    \/ main_interrupt
    \/ main_eof

SpecMain == Init /\ [][NextMain]_vars

NextCmd ==
    \E c \in Commands : Call_process_command(c)

SpecCmd == Init /\ [][NextCmd]_vars

NextTalk ==
    \E c \in TalkCommands : Call_process_command(c)

SpecTalk == Init /\ [][NextTalk]_vars

----------------------------------------------------------------------------
(* Properties of the goal tracker *)

ActiveIdx == 1..Len(active_goals)
CompletedIdx == 1..Len(completed_goals)

\* every goal dict the tracker has built is in one of the two lists
GoalRefs ==
    {[id |-> active_goals[i].id, obj |-> active_goals[i].obj] : i \in ActiveIdx}
    \cup {[id |-> completed_goals[j].id, obj |-> completed_goals[j].obj] :
            j \in CompletedIdx}

CompletedIds == {completed_goals[j].id : j \in CompletedIdx}

\* C1: goal ids are fresh and never reused: two goals created by the
\* tracker (still active or already completed) never carry the same id.
C1_GoalIdsNeverReused ==
    \A g \in GoalRefs, h \in GoalRefs : g.obj # h.obj => g.id # h.id

\* clamp(p, 0, 1) in tenths, as the claim states it
Clamp01(p) == IF p < 0 THEN 0 ELSE IF p > 10 THEN 10 ELSE p

\* C2: update_progress(id, p) on an active id stores clamp(p, 0, 1) in the
\* goal it selects (the first active goal with that id); below 1.0 the goal
\* stays where it is in the active list and the completed list is untouched;
\* at 1.0 the goal leaves the active list and is appended, with a completion
\* timestamp, to the completed list: moved, not copied.
C2_UpdateProgressClampsAndMoves ==
    [][\A id \in GoalIdValues, p \in ProgressValues :
        (Call_update_progress(id, p) /\ FirstIndex(active_goals, id) # 0) =>
            LET i == FirstIndex(active_goals, id)
                g == active_goals[i]
                c == Clamp01(p)
            IN  IF c < 10
                THEN /\ active_goals' = [active_goals EXCEPT ![i].progress = c]
                     /\ completed_goals' = completed_goals
                ELSE /\ active_goals' = RemoveAt(active_goals, i)
                     /\ \A k \in 1..Len(active_goals') :
                            active_goals'[k].obj # g.obj
                     /\ Len(completed_goals') = Len(completed_goals) + 1
                     /\ SubSeq(completed_goals', 1, Len(completed_goals))
                            = completed_goals
                     /\ LET d == completed_goals'[Len(completed_goals')]
                        IN  /\ d.obj = g.obj
                            /\ d.id = id
                            /\ d.progress = 10
                            /\ "completed" \in DOMAIN d
                            /\ d.completed \in Times
      ]_vars

\* C2 witness: a progress of 1.2 was clamped to 1.0 and moved the goal to
\* the completed list while another goal stayed active at 0.5
C2_Witness ==
    /\ result.msg = "Progress updated for goal"
    /\ Len(completed_goals) = 1
    /\ completed_goals[1].progress = 10
    /\ \E i \in ActiveIdx : active_goals[i].progress = 5

\* C3: completion is one-shot per id: once a goal with id g is in the
\* completed list, update_progress(g, p) and complete_goal(g) return
\* "Goal not found" and change neither list.
C3_CompletionIsOneShot ==
    [][\A id \in GoalIdValues :
        (/\ id \in CompletedIds
         /\ \/ Call_complete_goal(id)
            \/ \E p \in ProgressValues : Call_update_progress(id, p))
        => /\ result'.msg = "Goal not found"
           /\ UNCHANGED <<active_goals, completed_goals>>
      ]_vars

\* C4: add_goal with max_goals active goals returns the limit failure and
\* leaves both lists, hence every stored goal field, as they were.
C4_AddGoalAtLimitFails ==
    [][\A d \in Descriptions, pr \in Priorities :
        (Call_add_goal(d, pr) /\ Len(active_goals) = max_goals) =>
            /\ result'.msg = "Cannot add more goals - limit reached"
            /\ UNCHANGED <<active_goals, completed_goals, created_count>>
      ]_vars

\* C4 witness: the limit failure was returned with the active list full
C4_Witness ==
    /\ result.msg = "Cannot add more goals - limit reached"
    /\ Len(active_goals) = max_goals

\* C5: the number of active goals never exceeds the max_goals option of the
\* loaded configuration.
C5_ActiveWithinConfiguredMax == Len(active_goals) <= config_max_goals

C6_NoGoalInBothLists ==
    /\ \A i \in ActiveIdx, j \in CompletedIdx :
          active_goals[i].obj # completed_goals[j].obj
    /\ \A j \in CompletedIdx, k \in CompletedIdx :
          j # k => completed_goals[j].obj # completed_goals[k].obj

C6_CompletedNeverChanged ==
    \A j \in CompletedIdx :
        /\ j <= Len(completed_goals')
        /\ completed_goals'[j] = completed_goals[j]

C19_ActiveIdsPairwiseDistinct ==
    \A i \in ActiveIdx, j \in ActiveIdx :
        active_goals[i].id = active_goals[j].id => i = j

----------------------------------------------------------------------------
(* Properties of the dispatcher and the tools *)

\* C7: process_command lets no failure escape: whatever the command text,
\* the call returns normally and never raises.
C7_ProcessCommandNeverRaises == result.tag # "raise"

\* the reply sets of the conversational fallback
ConversationReplies == {"greeting", "mood", "learning", "generic"}

\* a progress command without exactly an id and a value, a write_file
\* command without both a name and a content (n is the normalized command)
MalformedArguments(n) ==
    \/ /\ startswith(n, kw_progress)
       /\ Len(split(From(n, Len(kw_progress)))) # 2
    \/ /\ startswith(n, kw_write_file)
       /\ LET parts == split_once(From(n, Len(kw_write_file)))
          IN  Len(parts) # 2 \/ parts[1] = <<>> \/ parts[2] = <<>>

\* C8: a command with a command prefix and a malformed argument list gives
\* an error message as a string result: the result is a string (never None,
\* never an exception), it is no conversational reply, and the goal, memory
\* and mood state are unchanged.
C8_MalformedCommandGivesErrorString ==
    [][\A c \in Commands :
        (process_command(c) /\ MalformedArguments(Normalize(c))) =>
            /\ result'.tag = "str"
            /\ result'.msg \notin ConversationReplies
            /\ UNCHANGED <<goal_vars, memory_vars, mood_vars>>
      ]_vars

\* the handler call a tool command stands for: the tool named by the
\* keyword, with the text after the keyword and its separating space
\* (n is the normalized command)
ExpectedToolCalls(n) ==
    IF startswith(n, kw_search)
    THEN <<[tool |-> "web_search", args |-> <<From(n, Len(kw_search))>>]>>
    ELSE IF startswith(n, kw_calculate)
    THEN <<[tool |-> "calculate", args |-> <<From(n, Len(kw_calculate))>>]>>
    ELSE IF startswith(n, kw_write_file)
    THEN LET parts == split_once(From(n, Len(kw_write_file)))
         IN  <<[tool |-> "write_file", args |-> <<parts[1], parts[2]>>]>>
    ELSE IF startswith(n, kw_read_file)
    THEN <<[tool |-> "read_file", args |-> <<From(n, Len(kw_read_file))>>]>>
    ELSE <<[tool |-> "execute_python", args |-> <<From(n, Len(kw_run))>>]>>

IsToolCommand(n) ==
    \/ startswith(n, kw_search)
    \/ startswith(n, kw_calculate)
    \/ startswith(n, kw_write_file) /\ ~MalformedArguments(n)
    \/ startswith(n, kw_read_file)
    \/ startswith(n, kw_run)

\* C9: for each tool command the dispatcher calls the named tool with
\* exactly the argument text that follows the keyword and its single
\* separating space in the normalized command.
C9_ToolCalledWithArgumentText ==
    [][\A c \in Commands :
        (process_command(c) /\ IsToolCommand(Normalize(c))) =>
            tool_calls' = ExpectedToolCalls(Normalize(c))
      ]_vars

\* C10: calculate evaluates an expression only when the whole input is made
\* of numeric literals, + - * / and parentheses: an input with any other
\* character is rejected with an error and nothing is evaluated.
C10_CalculateRejectsOtherTokens ==
    \A k \in 1..Len(tool_calls) :
        (/\ tool_calls[k].tool = "calculate"
         /\ \E i \in 1..Len(tool_calls[k].args[1]) :
                tool_calls[k].args[1][i] \notin SafeChars)
        => result.msg = "Calculation error"

Max2(a, b) == IF a > b THEN a ELSE b
Min2(a, b) == IF a < b THEN a ELSE b

\* a command that reaches have_conversation: no command keyword starts it
\* and it is no command word (n is the normalized command)
IsConversation(n) ==
    /\ \A kw \in {kw_search, kw_calculate, kw_write_file, kw_read_file, kw_run,
                   kw_add_goal, kw_progress} : ~startswith(n, kw)
    /\ n \notin {kw_learn_code, kw_learn_logic, kw_status, kw_goals, kw_memory,
                 kw_help}

\* the command lines with their normalized text
CommandTexts == {[raw |-> c, normal |-> Normalize(c)] : c \in TalkCommands}

\* C14: every command that reaches the conversational fallback appends
\* exactly one record, of kind 'conversation' with importance 0.4, at the
\* end of the store; every importance stored through process_command is
\* within [0, 1]; records already stored keep their content, importance
\* and order.
C14_ConversationAppendsOneRecord ==
    /\ [][\A c \in CommandTexts :
            (IsConversation(c.normal) /\ process_command(c.raw)) =>
                /\ Len(memories') = Len(memories) + 1
                /\ memories'[Len(memories')].type = "conversation"
                /\ importance_scores' = Append(importance_scores, 40)
         ]_vars
    /\ [](/\ Len(importance_scores) = Len(memories)
          /\ \A i \in 1..Len(importance_scores) : importance_scores[i] \in 0..100)
    /\ [][/\ Len(memories') >= Len(memories)
          /\ SubSeq(memories', 1, Len(memories)) = memories
          /\ SubSeq(importance_scores', 1, Len(importance_scores))
                = importance_scores
         ]_vars

\* C14 witness: a conversation record was appended after a puzzle record
C14_Witness ==
    /\ Len(memories) = 2
    /\ memories[1].type = "logic_puzzle"
    /\ memories[2].type = "conversation"
    /\ importance_scores[2] = 40
    /\ importance_scores[1] # 40

\* the reply set the ordered triggers give when the first trigger is one
\* of the texts in greetings
ReplySet(n, greetings) ==
    IF \E g \in greetings : contains(n, g) THEN "greeting"
    ELSE IF contains(n, sub_how_are_you) THEN "mood"
    ELSE IF contains(n, sub_learn) THEN "learning"
    ELSE "generic"

\* C17: the conversational fallback picks its reply set by the ordered
\* substring triggers: 'hello' a greeting; otherwise 'how are you' a mood
\* reply; otherwise 'learn' a learning reply; a message with none of the
\* three a generic reply.
C17_ReplySetByHelloTrigger ==
    [][\A c \in CommandTexts :
          (IsConversation(c.normal) /\ process_command(c.raw)) =>
              result'.msg = ReplySet(c.normal, {sub_hello})
      ]_vars

\* C17 as amended: the first trigger is 'hello' or 'hi': a message
\* containing either gets a greeting; otherwise 'how are you' a mood reply;
\* otherwise 'learn' a learning reply; a message with none of the four
\* substrings a generic reply.
C17_ReplySetByHelloOrHiTrigger ==
    [][\A c \in CommandTexts :
          (IsConversation(c.normal) /\ process_command(c.raw)) =>
              result'.msg = ReplySet(c.normal, {sub_hello, sub_hi})
      ]_vars

\* C17 witness: a message containing 'hi' and not 'hello' got a greeting
C17_Witness ==
    /\ result.msg = "greeting"
    /\ memories # <<>>
    /\ LET last == memories[Len(memories)]
       IN  /\ last.type = "conversation"
           /\ contains(last.user_message, sub_hi)
           /\ ~contains(last.user_message, sub_hello)

\* C18: energy and curiosity change only during a 'learn code' or 'learn
\* logic' command, each applying exactly one react call (reward 0.8 or -0.5
\* for code, 0.6 or -0.3 for logic); every other command leaves them
\* unchanged.
C18_MoodChangesOnlyByLearning ==
    [][\A c \in CommandTexts :
          LET rewards == IF c.normal = kw_learn_code THEN {8, -5}
                         ELSE IF c.normal = kw_learn_logic THEN {6, -3}
                         ELSE {}
              OneReact == \E r \in rewards :
                             /\ energy' = Max2(0, Min2(1000, energy + 2 * r))
                             /\ curiosity' = Max2(0, Min2(100, curiosity + r))
              Expected == IF rewards = {} THEN UNCHANGED <<energy, curiosity>>
                                          ELSE OneReact
          IN  Expected \/ ~process_command(c.raw)
      ]_vars

\* C18 witness: a successful 'learn code' and a successful 'learn logic'
\* have each reacted once
C18_Witness ==
    /\ energy = 778
    /\ curiosity = 74
    /\ cmd_count = 2

----------------------------------------------------------------------------
(* Properties of the interactive loop *)

\* C16: the loop ends exactly when a line, trimmed and lowercased, is
\* 'exit', 'quit' or 'bye' (the line is not dispatched) or an interrupt
\* arrives; every other line is dispatched to process_command exactly once,
\* and when the dispatch fails the loop reports the failure and goes on.
C16_LoopEndsOnlyOnExitOrInterrupt ==
    [][/\ main_interrupt => session' = "ended"
       /\ main_eof => session' = "running"
       /\ \A line \in Lines :
            main_step(line) =>
                IF strip(lower(line)) \in ExitWords
                THEN session' = "ended" /\ UNCHANGED <<cmd_count, result>>
                ELSE /\ cmd_count' = cmd_count + 1
                     /\ session' = "running"
                     /\ result'.tag = "raise" => printed' = "Error"
      ]_vars

----------------------------------------------------------------------------
(* Properties of the record store *)

\* sequences of distinct store indices, of length at most n
IndexLists(n) ==
    {idx \in UNION {[1..m -> 1..Len(memories)] : m \in 0..n} :
        \A p \in 1..Len(idx), q \in 1..Len(idx) : p # q => idx[p] # idx[q]}

\* C11: whenever search_similar(query, top_k), top_k >= 0, returns, the
\* returned list is made of records of the store with score > 0 (number of
\* query words occurring in the record text, times 1 + importance), has at
\* most top_k records, and is in non-increasing order of score.
C11_SearchReturnsPositiveSortedTopK ==
    [][\A q \in Queries, k \in TopKValues :
        (result'.tag = "list" /\ Call_search_similar(q, k)) =>
            LET score == Scores(memories, importance_scores, q)
            IN  /\ Len(result'.text) <= k
                /\ \E idx \in IndexLists(Len(result'.text)) :
                      /\ result'.text = [p \in 1..Len(idx) |-> memories[idx[p]]]
                      /\ \A p \in 1..Len(idx) : score[idx[p]] > 0
                      /\ \A p \in 1..(Len(idx) - 1) :
                            score[idx[p]] >= score[idx[p + 1]]
      ]_vars

\* C11 witness: a search over two records returned both, the second
\* record of the store first
C11_Witness ==
    /\ Len(memories) = 2
    /\ result.tag = "list"
    /\ result.text = <<memories[2], memories[1]>>
    /\ memories[1] # memories[2]

\* C20: search_similar is total: it returns a list for every store and
\* every query, also when distinct records obtain the same score (every
\* call on the store has returned: None from add_memory, a list from
\* search_similar).
C20_SearchSimilarIsTotal == result.tag \in {"None", "list"}

----------------------------------------------------------------------------
(* Properties of the mood state *)

\* C12: after any sequence of react(reward) calls from the initial mood,
\* energy is within [0, 100] and curiosity within [0, 1]; each call sets
\* energy to clamp(energy + 2 * reward, 0, 100) and curiosity to
\* clamp(curiosity + 0.1 * reward, 0, 1).
C12_ReactKeepsMoodInRange ==
    /\ [](energy \in 0..1000 /\ curiosity \in 0..100)
    /\ [][\A r \in RewardValues :
            Call_react(r) =>
                /\ energy' = Max2(0, Min2(1000, energy + 2 * r))
                /\ curiosity' = Max2(0, Min2(100, curiosity + r))
         ]_vars

\* C12 witness: a react call took energy and curiosity down to their
\* lower limits
C12_Witness ==
    /\ energy = 0
    /\ curiosity = 0
    /\ result = None

\* C15: get_mood returns the first match of the ordered rules: energy > 80
\* 'energetic'; otherwise curiosity > 0.7 'curious'; otherwise energy < 30
\* 'tired'; otherwise 'calm'; and it changes no state.
C15_MoodLabelIsFirstMatch ==
    [][Call_get_mood =>
          /\ (energy > 800) => result'.msg = "energetic"
          /\ (energy <= 800 /\ curiosity > 70) => result'.msg = "curious"
          /\ (energy <= 800 /\ curiosity <= 70 /\ energy < 300) =>
                result'.msg = "tired"
          /\ (energy \in 300..800 /\ curiosity <= 70) => result'.msg = "calm"
          /\ UNCHANGED <<mood_vars, goal_vars, memory_vars, files,
                         config_max_goals>>
      ]_vars

\* C15 witness: the label of a state with curiosity > 0.7 and energy < 30
\* was computed, and it is 'curious'
C15_Witness ==
    /\ result = Str("curious", <<>>, 0)
    /\ energy < 300
    /\ curiosity > 70

----------------------------------------------------------------------------
(* Properties of use_tool *)

\* C13: use_tool with a name that is not registered returns the unknown-tool
\* failure, calls no handler, and leaves the files, the goal lists, the
\* memory records and the mood state as they were (the tool table is the
\* constant available_tools).
C13_UnknownToolFailsAndChangesNothing ==
    [][\A t \in UnknownTools, a \in ToolArguments :
          Call_use_tool(t, a) =>
             /\ result' = Str("Tool not available", <<>>, 0)
             /\ tool_calls' = <<>>
             /\ UNCHANGED <<files, goal_vars, memory_vars, mood_vars>>
      ]_vars

\* C13 witness: an unknown tool was asked for while a file, a goal and a
\* record exist and the mood has moved
C13_Witness ==
    /\ result = Str("Tool not available", <<>>, 0)
    /\ files # {}
    /\ active_goals # <<>>
    /\ memories # <<>>
    /\ energy # 750

====
